---- MODULE Spec2Model ----
(***************************************************************************)
(* Posting queue and scheduling gate of the jail-roster publisher          *)
(* (src/data.py, src/openai_filter.py).                                    *)
(*                                                                         *)
(* Text that the code only compares for equality (charges, file paths,     *)
(* the names of queued records) is a TLA+ string.  Text that the code      *)
(* looks into (bail text, the lines of a detail view, the names read from  *)
(* them) is a sequence of one-character strings.  Wall-clock time is       *)
(* counted in whole hours of Central time: hour-of-day is now % 24 and the *)
(* calendar date is now \div 24.  Money is counted in cents.               *)
(***************************************************************************)
EXTENDS Integers, Sequences, FiniteSets, TLC

VARIABLES
    queue,      \* posting_queue.json: [exists, created_at, total_inmates, posted_count, inmates]
    files,      \* paths present under mugshots/
    now,        \* wall clock, hours of Central time
    lastOp,     \* name of the operation that ran last ("tick" once the clock moved)
    call,       \* arguments of the operation that ran last, and what it found
    retOk,      \* boolean returned by the operation that ran last
    retJobs,    \* list returned by the last get_next_inmates_to_post
    cycle,      \* what the last post cycle did
    published,  \* ids of the current snapshot -> number of real publish calls that returned a post id
    bail_text,              \* argument of the last parse_bail_amount
    amount,                 \* what the last parse_bail_amount returned
    scrape,                 \* the scrape cycle: "idle", in its "loop", "returned" or "raised"
    booking_ids,            \* the detail views find_booking_ids found for the cycle
    processed,              \* how many of them the loop is through
    all_extracted_data,     \* records the cycle has accepted; in the end what it returns
    extracted,              \* what the last loop iteration did
    api_log,    \* the publish calls of the post cycles that keep a log: [at, ok]
    running     \* post cycles that run step by step: process -> [pc, inmates_to_post, successful_posts]

textVars == <<bail_text, amount>>

scrapeVars == <<scrape, booking_ids, processed, all_extracted_data, extracted>>

runVars == <<api_log, running>>

vars == <<queue, files, now, lastOp, call, retOk, retJobs, cycle, published,
          bail_text, amount, scrape, booking_ids, processed, all_extracted_data, extracted,
          api_log, running>>

-----------------------------------------------------------------------------
(* Bounds *)

MaxRecords == 2      \* longest batch a scrape cycle hands to the queue (Spec)
MaxBatch == 2        \* largest batch_size passed to an operation
MaxTicks == 1        \* hours the clock may advance past its starting hour
MaxHead == 2         \* varied records at the head of a ranked batch (SpecRank)
PostTicks == 2       \* hours the clock may advance in SpecPost
GateJobs == 5        \* jobs in the queue of the scheduling-gate specification
MaxFragments == 2    \* pieces a bail text is made of (SpecParse)
MaxViews == 2        \* detail views of a scrape cycle (SpecScrape)
MaxCalls == 6        \* publish calls in the log of a day (SpecDay)
MaxFailures == 1     \* publish calls that fail before the API answers (SpecLive)
LiveTicks == 16      \* hours the clock may advance in SpecLive

-----------------------------------------------------------------------------
(* Config *)

DAILY_POST_LIMIT == 5
POSTING_INTERVAL_HOURS == 2
POSTING_START_HOUR == 6
POSTING_END_HOUR == 22
TOP_N == 10
BATCH_SIZE == 1      \* post_next_inmates(batch_size=1), the only value its callers pass

None == -1           \* Python None in posted_at

NO_CHARGE_LISTED == "No charge listed"
NO_BAIL_INFORMATION ==
    <<"N", "o", " ", "b", "a", "i", "l", " ", "i", "n", "f", "o", "r", "m", "a", "t", "i", "o", "n">>
NO_IMAGE == "No Image"

-----------------------------------------------------------------------------
(* Scraped records *)

BAIL_500 == <<"$", "5", "0", "0">>
BAIL_2500 == <<"$", "2", ",", "5", "0", "0", ".", "0", "0">>
BAIL_HOLD ==
    <<"H", "O", "L", "D", " ", "W", "I", "T", "H", "O", "U", "T", " ", "B", "A", "I", "L">>

\* convert_base64_to_image: mugshots/mugshot_<sanitized name>.jpg, written here as the name
MugshotFile(name) == name

Record(name, charge, bail) ==
    [name |-> name, charge |-> charge, bail |-> bail, file |-> MugshotFile(name)]

\* records of the queue specifications: two people, one of them scraped twice
QueueRecords ==
    { Record("A", "THEFT", BAIL_500),
      Record("B", NO_CHARGE_LISTED, NO_BAIL_INFORMATION) }

\* records of the ranking specification: every priority, several bail texts
RankRecords ==
    { Record("A", "THEFT", BAIL_500),
      Record("B", "THEFT", BAIL_2500),
      Record("C", NO_CHARGE_LISTED, BAIL_HOLD),
      Record("D", "THEFT", NO_BAIL_INFORMATION),
      Record("E", NO_CHARGE_LISTED, NO_BAIL_INFORMATION),
      Record("F", "", <<>>) }

\* the record that fills a batch up to the length where it is cut
Filler == Record("Z", NO_CHARGE_LISTED, BAIL_2500)

Range(s) == { s[i] : i \in DOMAIN s }

SeqsUpTo(S, n) == UNION { [1..k -> S] : k \in 0..n }

RECURSIVE Repeat(_, _)
Repeat(x, n) == IF n = 0 THEN <<>> ELSE <<x>> \o Repeat(x, n - 1)

-----------------------------------------------------------------------------
(* save_to_posting_queue: ranking *)

Digits == {"0", "1", "2", "3", "4", "5", "6", "7", "8", "9"}

DigitVal(c) ==
    CASE c = "0" -> 0 [] c = "1" -> 1 [] c = "2" -> 2 [] c = "3" -> 3 [] c = "4" -> 4
      [] c = "5" -> 5 [] c = "6" -> 6 [] c = "7" -> 7 [] c = "8" -> 8 [] c = "9" -> 9

\* last index of the run of characters of S that starts at i (i - 1 if none)
RECURSIVE RunEnd(_, _, _)
RunEnd(s, i, S) ==
    IF i <= Len(s) /\ s[i] \in S THEN RunEnd(s, i + 1, S) ELSE i - 1

\* re.search(r'\$[\d,]+\.?\d*', s): <<first, last>> of the leftmost match, <<0, 0>> if none
RECURSIVE MoneySearch(_, _)
MoneySearch(s, i) ==
    IF i > Len(s) THEN <<0, 0>>
    ELSE IF s[i] = "$" /\ RunEnd(s, i + 1, Digits \cup {","}) > i
    THEN LET a == RunEnd(s, i + 1, Digits \cup {","})
             b == IF a + 1 <= Len(s) /\ s[a + 1] = "." THEN a + 1 ELSE a
         IN  <<i, RunEnd(s, b + 1, Digits)>>
    ELSE MoneySearch(s, i + 1)

\* float(text) of digits with an optional decimal point, in cents
RECURSIVE FloatCents(_, _, _, _)
FloatCents(s, i, whole, decimals) ==
    IF i > Len(s) THEN
        IF decimals <= 0 THEN whole * 100
        ELSE IF decimals = 1 THEN whole * 10
        ELSE whole
    ELSE IF s[i] = "." THEN FloatCents(s, i + 1, whole, 0)
    ELSE IF decimals = 2 THEN whole
    ELSE FloatCents(s, i + 1, whole * 10 + DigitVal(s[i]),
                    IF decimals < 0 THEN decimals ELSE decimals + 1)

\* str.replace(',', '')
StripCommas(s) == SelectSeq(s, LAMBDA c : c # ",")

get_bail_amount(bail_str) ==
    IF bail_str = <<>> \/ bail_str = NO_BAIL_INFORMATION THEN 0
    ELSE LET m == MoneySearch(bail_str, 1) IN
         IF m[1] = 0 THEN 0
         ELSE FloatCents(StripCommas(SubSeq(bail_str, m[1] + 1, m[2])), 1, 0, -1)

get_priority(inmate) ==
    (IF inmate.charge # "" /\ inmate.charge # NO_CHARGE_LISTED THEN 1 ELSE 0)
    + (IF inmate.bail # <<>> /\ inmate.bail # NO_BAIL_INFORMATION THEN 1 ELSE 0)

\* SortKey with the bail amount ahead of the priority
SortKey_BailFirst(i) == <<0 - get_bail_amount(i.bail), 0 - get_priority(i)>>

\* the key of the lambda, compared as Python compares tuples
SortKey(i) == <<0 - get_priority(i), 0 - get_bail_amount(i.bail)>>

KeyLess(a, b) == a[1] < b[1] \/ (a[1] = b[1] /\ a[2] < b[2])

\* InsertSorted placing an element ahead of the elements of equal key
RECURSIVE InsertSorted_EqualFirst(_, _)
InsertSorted_EqualFirst(x, t) ==
    IF t = <<>> THEN <<x>>
    ELSE IF ~KeyLess(SortKey(Head(t)), SortKey(x)) THEN <<x>> \o t
    ELSE <<Head(t)>> \o InsertSorted_EqualFirst(x, Tail(t))

\* sorted(): stable, an element goes behind every element whose key is not greater
RECURSIVE InsertSorted(_, _)
InsertSorted(x, t) ==
    IF t = <<>> THEN <<x>>
    ELSE IF KeyLess(SortKey(x), SortKey(Head(t))) THEN <<x>> \o t
    ELSE <<Head(t)>> \o InsertSorted(x, Tail(t))

RECURSIVE Sorted(_, _)
Sorted(d, acc) ==
    IF d = <<>> THEN acc ELSE Sorted(Tail(d), InsertSorted(Head(d), acc))

\* Take slicing from the end, s[-n:]
Take_Last(s, n) == SubSeq(s, (IF Len(s) < n THEN 0 ELSE Len(s) - n) + 1, Len(s))

\* s[:n]
Take(s, n) == SubSeq(s, 1, IF Len(s) < n THEN Len(s) ELSE n)

\* filter_priority_inmates without the cut to n
filter_priority_inmates_NoCut(d, n) == Sorted(d, <<>>)

filter_priority_inmates(d, n) == Take(Sorted(d, <<>>), n)

-----------------------------------------------------------------------------
(* Text operations of str, on sequences of one-character strings *)

LOWERCASE == <<"a", "b", "c", "d", "e", "f", "g", "h", "i", "j", "k", "l", "m", "n", "o", "p", "q", "r", "s", "t", "u", "v", "w", "x", "y", "z">>

UPPERCASE == <<"A", "B", "C", "D", "E", "F", "G", "H", "I", "J", "K", "L", "M", "N", "O", "P", "Q", "R", "S", "T", "U", "V", "W", "X", "Y", "Z">>

Letters == Range(LOWERCASE) \cup Range(UPPERCASE)

\* the upper-case letter of every lower-case letter
ToUpper == [c \in Range(LOWERCASE) |->
              UPPERCASE[CHOOSE i \in DOMAIN LOWERCASE : LOWERCASE[i] = c]]

\* str.upper(), one character
UpperChar(c) == IF c \in DOMAIN ToUpper THEN ToUpper[c] ELSE c

\* str.upper()
Upper(s) == [i \in DOMAIN s |-> UpperChar(s[i])]

Whitespace == {" ", "\t"}

\* str.lstrip()
RECURSIVE LStrip(_)
LStrip(s) == IF s # <<>> /\ Head(s) \in Whitespace THEN LStrip(Tail(s)) ELSE s

\* str.rstrip()
RECURSIVE RStrip(_)
RStrip(s) ==
    IF s # <<>> /\ s[Len(s)] \in Whitespace THEN RStrip(SubSeq(s, 1, Len(s) - 1)) ELSE s

\* str.strip()
Strip(s) == RStrip(LStrip(s))

\* pat in s
Contains(s, pat) ==
    \/ pat = <<>>
    \/ \E i \in 1..(Len(s) - Len(pat) + 1) :
         s[i] = pat[1] /\ SubSeq(s, i, i + Len(pat) - 1) = pat

-----------------------------------------------------------------------------
(* parse_bail_amount *)

NO_BAIL == <<"N", "O", " ", "B", "A", "I", "L">>
HOLD_WITHOUT_BAIL == <<"H", "O", "L", "D", " ", "W", "I", "T", "H", "O", "U", "T", " ", "B", "A", "I", "L">>
RELEASED == <<"R", "E", "L", "E", "A", "S", "E", "D">>
NO_BAIL_INFORMATION_UPPER == <<"N", "O", " ", "B", "A", "I", "L", " ", "I", "N", "F", "O", "R", "M", "A", "T", "I", "O", "N">>

\* the value returned for the no-bail cases; the amounts of the model are in
\* cents and stay below it
NO_BAIL_AMOUNT == 999999999

\* float(amount_str) raises ValueError when amount_str holds no digit
ValueError == -1

float(amount_str) ==
    IF \A i \in DOMAIN amount_str : amount_str[i] \notin Digits THEN ValueError
    ELSE FloatCents(amount_str, 1, 0, -1)

\* the body of the try block
parse_bail_amount_try(bail_string) ==
    IF bail_string = <<>> \/ Strip(bail_string) = <<>> THEN 0
    ELSE LET bail_upper == Strip(Upper(bail_string))
             m == MoneySearch(bail_string, 1)
         IN  IF Contains(bail_upper, NO_BAIL) \/ Contains(bail_upper, HOLD_WITHOUT_BAIL)
             THEN NO_BAIL_AMOUNT
             ELSE IF Contains(bail_upper, RELEASED)
                     \/ Contains(bail_upper, NO_BAIL_INFORMATION_UPPER)
             THEN 0
             ELSE IF m[1] # 0
             THEN float(StripCommas(SubSeq(bail_string, m[1] + 1, m[2])))
             ELSE 0

\* parse_bail_amount without the except clause
parse_bail_amount_NoExcept(bail_string) == parse_bail_amount_try(bail_string)

\* parse_bail_amount: an exception in the try block is printed and 0 returned
parse_bail_amount(bail_string) ==
    LET r == parse_bail_amount_try(bail_string) IN
    IF r = ValueError THEN 0 ELSE r

-----------------------------------------------------------------------------
(* The queue snapshot *)

NoQueueFile ==
    [exists |-> FALSE, created_at |-> None, total_inmates |-> 0,
     posted_count |-> 0, inmates |-> <<>>]

Ids(q) == { q.inmates[i].id : i \in DOMAIN q.inmates }

PostedIds(q) == { q.inmates[i].id : i \in { j \in DOMAIN q.inmates : q.inmates[j].posted } }

\* sum(1 for inmate in inmates if inmate['posted'])
RECURSIVE CountPosted(_)
CountPosted(inmates) ==
    IF inmates = <<>> THEN 0
    ELSE (IF Head(inmates).posted THEN 1 ELSE 0) + CountPosted(Tail(inmates))

\* the queue document written by save_to_posting_queue(data_list) at time t
NewQueue(data_list, t) ==
    LET filtered_inmates == filter_priority_inmates(data_list, TOP_N) IN
    [exists |-> TRUE,
     created_at |-> t,
     total_inmates |-> Len(filtered_inmates),
     posted_count |-> 0,
     inmates |-> [i \in 1..Len(filtered_inmates) |->
                    [id |-> i, data |-> filtered_inmates[i],
                     posted |-> FALSE, posted_at |-> None]]]

-----------------------------------------------------------------------------
(* Mugshot files *)

\* the paths delete_mugshot_files removes for inmate_ids, read from the queue q
MugshotsOf(q, inmate_ids) ==
    { q.inmates[i].data.file :
        i \in { j \in DOMAIN q.inmates :
                  /\ q.inmates[j].id \in inmate_ids
                  /\ q.inmates[j].data.file # NO_IMAGE } }

delete_mugshot_files(q, fs, inmate_ids) ==
    IF q.exists THEN fs \ MugshotsOf(q, inmate_ids) ELSE fs

-----------------------------------------------------------------------------
(* mark_inmates_as_posted *)

\* MarkedQueue storing the local counter of the loop instead of the recount
MarkedQueue_StoresMatched(q, inmate_ids, t) ==
    LET marked == [i \in DOMAIN q.inmates |->
                     IF q.inmates[i].id \in inmate_ids
                     THEN [q.inmates[i] EXCEPT !.posted = TRUE, !.posted_at = t]
                     ELSE q.inmates[i]]
    IN  [q EXCEPT !.inmates = marked,
                  !.posted_count = Cardinality(Ids(q) \cap inmate_ids)]

\* MarkedQueue adding the jobs it matched to the stored count
MarkedQueue_AddsMatched(q, inmate_ids, t) ==
    LET marked == [i \in DOMAIN q.inmates |->
                     IF q.inmates[i].id \in inmate_ids
                     THEN [q.inmates[i] EXCEPT !.posted = TRUE, !.posted_at = t]
                     ELSE q.inmates[i]]
    IN  [q EXCEPT !.inmates = marked,
                  !.posted_count = q.posted_count + Cardinality(Ids(q) \cap inmate_ids)]

\* MarkedQueue stamping posted_at without setting the posted flag
MarkedQueue_KeepsFlag(q, inmate_ids, t) ==
    LET marked == [i \in DOMAIN q.inmates |->
                     IF q.inmates[i].id \in inmate_ids
                     THEN [q.inmates[i] EXCEPT !.posted_at = t]
                     ELSE q.inmates[i]]
    IN  [q EXCEPT !.inmates = marked, !.posted_count = CountPosted(marked)]

\* MarkedQueue stamping every job that is posted when the loop is over
MarkedQueue_StampsPosted(q, inmate_ids, t) ==
    LET marked == [i \in DOMAIN q.inmates |->
                     IF q.inmates[i].id \in inmate_ids \/ q.inmates[i].posted
                     THEN [q.inmates[i] EXCEPT !.posted = TRUE, !.posted_at = t]
                     ELSE q.inmates[i]]
    IN  [q EXCEPT !.inmates = marked, !.posted_count = CountPosted(marked)]

\* the loop over queue_data['inmates'] followed by the recount
MarkedQueue(q, inmate_ids, t) ==
    LET marked == [i \in DOMAIN q.inmates |->
                     IF q.inmates[i].id \in inmate_ids
                     THEN [q.inmates[i] EXCEPT !.posted = TRUE, !.posted_at = t]
                     ELSE q.inmates[i]]
    IN  [q EXCEPT !.inmates = marked, !.posted_count = CountPosted(marked)]

\* mark_inmates_as_posted taking a missing queue file for an empty queue
mark_inmates_as_posted_MissingOk(q, fs, inmate_ids, t) ==
    IF ~q.exists THEN <<q, fs, TRUE>>
    ELSE LET q2 == MarkedQueue(q, inmate_ids, t)
             posted_count == Cardinality(Ids(q) \cap inmate_ids)
         IN  <<q2,
               IF posted_count > 0 THEN delete_mugshot_files(q2, fs, inmate_ids) ELSE fs,
               TRUE>>

\* <<queue, files, return value>> after mark_inmates_as_posted(inmate_ids) at time t
mark_inmates_as_posted(q, fs, inmate_ids, t) ==
    IF ~q.exists THEN <<q, fs, FALSE>>
    ELSE LET q2 == MarkedQueue(q, inmate_ids, t)
             posted_count == Cardinality(Ids(q) \cap inmate_ids)
         IN  <<q2,
               IF posted_count > 0 THEN delete_mugshot_files(q2, fs, inmate_ids) ELSE fs,
               TRUE>>

-----------------------------------------------------------------------------
(* cleanup_unposted_mugshots *)

\* cleanup_unposted_mugshots keeping the wrong list of ids
cleanup_unposted_mugshots_KeepsPending(q, fs) ==
    IF ~q.exists THEN <<q, fs, TRUE>>
    ELSE LET unposted_ids == Ids(q) \ PostedIds(q)
             kept == SelectSeq(q.inmates, LAMBDA i : i.id \in unposted_ids)
         IN  <<[q EXCEPT !.inmates = kept,
                         !.total_inmates = Len(kept),
                         !.posted_count = CountPosted(kept)],
               fs \ MugshotsOf(q, unposted_ids),
               TRUE>>

\* cleanup_unposted_mugshots pruning the queue and leaving the files alone
cleanup_unposted_mugshots_KeepsFiles(q, fs) ==
    IF ~q.exists THEN <<q, fs, TRUE>>
    ELSE LET posted_ids == PostedIds(q)
             kept == SelectSeq(q.inmates, LAMBDA i : i.id \in posted_ids)
         IN  <<[q EXCEPT !.inmates = kept,
                         !.total_inmates = Len(kept),
                         !.posted_count = CountPosted(kept)],
               fs,
               TRUE>>

\* <<queue, files, return value>> after cleanup_unposted_mugshots()
cleanup_unposted_mugshots(q, fs) ==
    IF ~q.exists THEN <<q, fs, TRUE>>
    ELSE LET unposted_ids == Ids(q) \ PostedIds(q)
             posted_ids == PostedIds(q)
             kept == SelectSeq(q.inmates, LAMBDA i : i.id \in posted_ids)
         IN  <<[q EXCEPT !.inmates = kept,
                         !.total_inmates = Len(kept),
                         !.posted_count = CountPosted(kept)],
               fs \ MugshotsOf(q, unposted_ids),
               TRUE>>

-----------------------------------------------------------------------------
(* get_next_inmates_to_post and the vision gate *)

\* what the gate can do on a batch: the import failed, the filter raised, or it
\* ran and the model approved the jobs at the positions in approve
GateInputs(batch) ==
    { [mode |-> "unavailable", approve |-> {}], [mode |-> "raises", approve |-> {}] }
    \cup { [mode |-> "runs", approve |-> a] : a \in SUBSET (1..batch) }

\* BLIPImageFilter.filter_inmates_by_ai: the approved jobs; analyze_mugshot
\* rejects a job whose image file cannot be loaded
filter_inmates_by_ai(inmates_list, fs, approve) ==
    LET approved == { i \in DOMAIN inmates_list :
                        i \in approve /\ inmates_list[i].data.file \in fs }
    IN  SelectSeq([i \in DOMAIN inmates_list |-> <<i, inmates_list[i]>>],
                  LAMBDA p : p[1] \in approved)

\* Unposted without the test of the posted flag
Unposted_All(q) == q.inmates

Unposted(q) == SelectSeq(q.inmates, LAMBDA inmate : ~inmate.posted)

\* get_next_inmates_to_post falling back to the batch when the gate rejects it
get_next_inmates_to_post_Fallback(q, fs, batch_size, gate) ==
    IF ~q.exists THEN <<>>
    ELSE LET unposted_inmates == SelectSeq(q.inmates, LAMBDA inmate : ~inmate.posted)
         IN  Take(unposted_inmates, batch_size)

\* get_next_inmates_to_post taking the head of the queue, posted or not
get_next_inmates_to_post_FirstOfQueue(q, fs, batch_size, gate) ==
    IF ~q.exists THEN <<>> ELSE Take(q.inmates, batch_size)

get_next_inmates_to_post(q, fs, batch_size, gate) ==
    IF ~q.exists THEN <<>>
    ELSE LET unposted_inmates == Unposted(q)
             next_inmate == Take(unposted_inmates, batch_size)
         IN  IF unposted_inmates = <<>> THEN <<>>
             ELSE IF gate.mode = "runs" THEN
                 LET approved_inmates == filter_inmates_by_ai(next_inmate, fs, gate.approve)
                 IN  [i \in DOMAIN approved_inmates |-> approved_inmates[i][2]]
             ELSE next_inmate

-----------------------------------------------------------------------------
(* Scheduling gate *)

\* the loop of get_daily_post_count over queue_data['inmates']
RECURSIVE CountToday(_, _)
CountToday(inmates, today) ==
    IF inmates = <<>> THEN 0
    ELSE (IF Head(inmates).posted /\ Head(inmates).posted_at # None
             /\ Head(inmates).posted_at \div 24 = today
          THEN 1 ELSE 0) + CountToday(Tail(inmates), today)

get_daily_post_count(q, t) ==
    IF ~q.exists THEN 0 ELSE CountToday(q.inmates, t \div 24)

\* the loop of is_posting_allowed that finds the most recent post
RECURSIVE LastPostTime(_, _)
LastPostTime(inmates, last_post_time) ==
    IF inmates = <<>> THEN last_post_time
    ELSE LET inmate == Head(inmates) IN
         LastPostTime(Tail(inmates),
             IF inmate.posted /\ inmate.posted_at # None
                /\ (last_post_time = None \/ inmate.posted_at > last_post_time)
             THEN inmate.posted_at ELSE last_post_time)

\* is_posting_allowed comparing the daily count with > instead of >=
is_posting_allowed_OffByOne(q, t) ==
    LET daily_posts == get_daily_post_count(q, t)
        current_hour == t % 24
    IN  IF daily_posts > DAILY_POST_LIMIT THEN FALSE
        ELSE IF current_hour < POSTING_START_HOUR \/ current_hour >= POSTING_END_HOUR
        THEN FALSE
        ELSE IF ~q.exists THEN TRUE
        ELSE LET last_post_time == LastPostTime(q.inmates, None) IN
             IF last_post_time # None /\ t - last_post_time < POSTING_INTERVAL_HOURS
             THEN FALSE
             ELSE TRUE

\* is_posting_allowed refusing after any post, however long ago
is_posting_allowed_AnyPostBlocks(q, t) ==
    LET daily_posts == get_daily_post_count(q, t)
        current_hour == t % 24
    IN  IF daily_posts >= DAILY_POST_LIMIT THEN FALSE
        ELSE IF current_hour < POSTING_START_HOUR \/ current_hour >= POSTING_END_HOUR
        THEN FALSE
        ELSE IF ~q.exists THEN TRUE
        ELSE LastPostTime(q.inmates, None) = None

is_posting_allowed(q, t) ==
    LET daily_posts == get_daily_post_count(q, t)
        current_hour == t % 24
    IN  IF daily_posts >= DAILY_POST_LIMIT THEN FALSE
        ELSE IF current_hour < POSTING_START_HOUR \/ current_hour >= POSTING_END_HOUR
        THEN FALSE
        ELSE IF ~q.exists THEN TRUE
        ELSE LET last_post_time == LastPostTime(q.inmates, None) IN
             IF last_post_time # None /\ t - last_post_time < POSTING_INTERVAL_HOURS
             THEN FALSE
             ELSE TRUE

-----------------------------------------------------------------------------
(* post_next_inmates *)

NoCycle ==
    [test |-> FALSE, allowed |-> FALSE, gate |-> "none", candidates |-> <<>>,
     selected |-> <<>>, calls |-> 0, api_ok |-> {},
     successful |-> {}, failed |-> {}]

IdsOf(jobs) == [i \in DOMAIN jobs |-> jobs[i].id]

\* the verdict of the gate on the batch next_inmate: "approved" when it ran and
\* approved every job, "partial" when it approved some, "rejected" when none
GateVerdict(next_inmate, fs, gate) ==
    IF next_inmate = <<>> THEN "none"
    ELSE IF gate.mode = "runs" THEN
        LET n == Len(filter_inmates_by_ai(next_inmate, fs, gate.approve)) IN
        IF n = 0 THEN "rejected" ELSE IF n = Len(next_inmate) THEN "approved" ELSE "partial"
    ELSE gate.mode

CredentialInputs == {"none", "token", "full"}

\* the runs of a post cycle that differ: the publish results matter only to a
\* live cycle that holds both credentials
PublishInputs(batch) ==
    { p \in [test_mode : BOOLEAN, credentials : CredentialInputs, okAt : SUBSET (1..batch)] :
        (p.test_mode \/ p.credentials # "full") => p.okAt = {} }

\* post_to_instagram: credentials is what the environment holds, ok is whether
\* the two API calls of a live post return a post id
post_to_instagram(credentials, test_mode, ok) ==
    IF credentials # "full" THEN FALSE
    ELSE IF test_mode THEN TRUE
    ELSE ok

\* SuccessfulPosts ignoring the result of post_to_instagram
SuccessfulPosts_All(inmates_to_post, credentials, test_mode, okAt) ==
    { inmates_to_post[i].id : i \in DOMAIN inmates_to_post }

\* the ids the loop of post_next_inmates appends to successful_posts
SuccessfulPosts(inmates_to_post, credentials, test_mode, okAt) ==
    { inmates_to_post[i].id :
        i \in { j \in DOMAIN inmates_to_post :
                  post_to_instagram(credentials, test_mode, j \in okAt) } }

\* the ids for which the publish API returned a post id
ApiOk(inmates_to_post, credentials, test_mode, okAt) ==
    IF test_mode \/ credentials # "full" THEN {}
    ELSE { inmates_to_post[i].id : i \in DOMAIN inmates_to_post \cap okAt }

\* post_next_inmates(batch_size, test_mode) at time t; okAt is the set of
\* positions of inmates_to_post whose live publish succeeds
post_next_inmates(q, fs, t, batch_size, test_mode, gate, credentials, okAt) ==
    LET allowed == test_mode \/ is_posting_allowed(q, t)
        next_inmate == IF q.exists THEN Take(Unposted(q), batch_size) ELSE <<>>
        inmates_to_post == get_next_inmates_to_post(q, fs, batch_size, gate)
        seen == [NoCycle EXCEPT !.test = test_mode, !.allowed = allowed]
        chosen == [seen EXCEPT !.candidates = IdsOf(next_inmate),
                               !.gate = GateVerdict(next_inmate, fs, gate),
                               !.selected = IdsOf(inmates_to_post)]
    IN  IF ~allowed THEN
            [queue |-> q, files |-> fs, ret |-> FALSE, cycle |-> seen]
        ELSE IF inmates_to_post = <<>> THEN
            [queue |-> q, files |-> fs, ret |-> TRUE, cycle |-> chosen]
        ELSE IF credentials = "none" THEN
            [queue |-> q, files |-> fs, ret |-> FALSE, cycle |-> chosen]
        ELSE
            LET successful_posts ==
                    SuccessfulPosts(inmates_to_post, credentials, test_mode, okAt)
                failed_posts == Range(IdsOf(inmates_to_post)) \ successful_posts
                marked == IF successful_posts # {}
                          THEN mark_inmates_as_posted(q, fs, successful_posts, t)
                          ELSE <<q, fs, TRUE>>
            IN  [queue |-> marked[1], files |-> marked[2],
                 ret |-> Cardinality(successful_posts) > 0,
                 cycle |-> [chosen EXCEPT
                              !.calls = Len(inmates_to_post),
                              !.api_ok = ApiOk(inmates_to_post, credentials, test_mode, okAt),
                              !.successful = successful_posts,
                              !.failed = failed_posts]]

-----------------------------------------------------------------------------
(* FieldExtractor: the fields of one detail view *)
(* page_text is the sequence of its lines, each a sequence of characters *)

MIN_NAME_LENGTH == 3
MAX_NAME_LENGTH == 50
MIN_CHARGE_LENGTH == 5

NAME_PATTERNS ==
    { <<"F", "u", "l", "l", " ", "N", "a", "m", "e", ":">>,
      <<"N", "a", "m", "e", ":">>,
      <<"I", "n", "m", "a", "t", "e", " ", "N", "a", "m", "e", ":">>,
      <<"A", "r", "r", "e", "s", "t", "e", "e", " ", "N", "a", "m", "e", ":">>,
      <<"D", "e", "f", "e", "n", "d", "a", "n", "t", " ", "N", "a", "m", "e", ":">>,
      <<"S", "u", "b", "j", "e", "c", "t", " ", "N", "a", "m", "e", ":">> }

INVALID_CHARGES ==
    { <<"N", "o", " ", "c", "h", "a", "r", "g", "e", " ", "l", "i", "s", "t", "e", "d">>,
      <<"C", "h", "a", "r", "g", "e", " ", "i", "n", "f", "o", "r", "m", "a", "t", "i", "o", "n", " ", "n", "o", "t", " ", "a", "v", "a", "i", "l", "a", "b", "l", "e">>,
      <<"S", "e", "v", "e", "r", "i", "t", "y", " ", "o", "f", " ", "C", "h", "a", "r", "g", "e", ":">>,
      <<"D", "e", "s", "c", "r", "i", "p", "t", "i", "o", "n", ":">>,
      <<"C", "h", "a", "r", "g", "e", " ", "S", "t", "a", "t", "u", "s", ":">> }

INVALID_BAILS ==
    { <<"N", "O", " ", "B", "A", "I", "L", " ", "I", "N", "F", "O", "R", "M", "A", "T", "I", "O", "N">>,
      <<"N", "O", " ", "B", "A", "I", "L", " ", "R", "E", "Q", "U", "I", "R", "E", "D">>,
      <<"N", "o", " ", "b", "a", "i", "l", " ", "i", "n", "f", "o", "r", "m", "a", "t", "i", "o", "n">>,
      <<"N", "o", " ", "b", "a", "i", "l">>,
      <<"N", "o", " ", "B", "a", "i", "l">>,
      <<"N", "o", " ", "b", "a", "i", "l", " ", "r", "e", "q", "u", "i", "r", "e", "d">> }

CHARGE_1 == <<"C", "h", "a", "r", "g", "e", ":", " ", "1">>
DESCRIPTION == <<"D", "e", "s", "c", "r", "i", "p", "t", "i", "o", "n", ":">>
BAIL_OPTIONS == <<"B", "a", "i", "l", " ", "O", "p", "t", "i", "o", "n", "s", ":">>
BAIL_LABEL == <<"B", "a", "i", "l", ":">>
BOND == <<"B", "O", "N", "D">>
UNKNOWN == <<"U", "n", "k", "n", "o", "w", "n">>
BOOKING_ == <<"B", "o", "o", "k", "i", "n", "g", "_">>
MUGSHOT_ == <<"m", "u", "g", "s", "h", "o", "t", "_">>

\* the characters of s as one string
RECURSIVE Join(_)
Join(s) == IF s = <<>> THEN "" ELSE Head(s) \o Join(Tail(s))

is_valid_name(name) ==
    /\ Len(name) >= MIN_NAME_LENGTH
    /\ \E i \in DOMAIN name : name[i] = " "
    /\ \E i \in DOMAIN name : name[i] \in Letters
    /\ Len(name) <= MAX_NAME_LENGTH

\* _extract_name from line i on: the first line after a label that is a valid name
RECURSIVE extract_name(_, _)
extract_name(lines, i) ==
    IF i > Len(lines) THEN <<>>
    ELSE IF /\ \E pattern \in NAME_PATTERNS : Contains(Strip(lines[i]), pattern)
            /\ i + 1 <= Len(lines)
            /\ is_valid_name(Strip(lines[i + 1]))
    THEN Strip(lines[i + 1])
    ELSE extract_name(lines, i + 1)

is_valid_charge(charge) ==
    /\ Len(charge) >= MIN_CHARGE_LENGTH
    /\ charge[Len(charge)] # ":"
    /\ charge \notin INVALID_CHARGES

\* the lines j after a 'Charge: 1' line i that say 'Description:' ahead of a valid charge
ChargeAt(lines) ==
    { <<i, j>> \in (DOMAIN lines) \X (DOMAIN lines) :
        /\ Strip(lines[i]) = CHARGE_1
        /\ i + 1 <= j
        /\ j <= i + 9
        /\ Strip(lines[j]) = DESCRIPTION
        /\ j + 1 <= Len(lines)
        /\ is_valid_charge(Strip(lines[j + 1])) }

\* _extract_charge: the first such line in the order of the two loops
extract_charge(lines) ==
    IF ChargeAt(lines) = {} THEN <<>>
    ELSE LET first == CHOOSE p \in ChargeAt(lines) :
                        \A q \in ChargeAt(lines) :
                            p[1] < q[1] \/ (p[1] = q[1] /\ p[2] <= q[2])
         IN  Strip(lines[first[2] + 1])

is_valid_bail(bail) ==
    /\ bail # <<>>
    /\ Strip(bail) # <<>>
    /\ \/ \E i \in DOMAIN bail : bail[i] = "$"
       \/ Contains(Upper(bail), NO_BAIL)
       \/ Contains(Upper(bail), RELEASED)
       \/ Contains(Upper(bail), BOND)
    /\ \A pattern \in INVALID_BAILS : Upper(Strip(bail)) # Upper(pattern)

\* line.split(":", 1)[1]
AfterColon(line) ==
    LET k == CHOOSE i \in DOMAIN line : line[i] = ":" /\ \A j \in 1..(i - 1) : line[j] # ":"
    IN  SubSeq(line, k + 1, Len(line))

\* _extract_bail from line i on
RECURSIVE extract_bail(_, _)
extract_bail(lines, i) ==
    IF i > Len(lines) THEN <<>>
    ELSE LET line == Strip(lines[i]) IN
         IF Contains(line, BAIL_OPTIONS) /\ i + 1 <= Len(lines)
         THEN IF is_valid_bail(Strip(lines[i + 1])) THEN Strip(lines[i + 1])
              ELSE extract_bail(lines, i + 1)
         ELSE IF Contains(line, BAIL_LABEL) /\ is_valid_bail(Strip(AfterColon(line)))
         THEN Strip(AfterColon(line))
         ELSE extract_bail(lines, i + 1)

\* the record extract_all_fields starts from
EmptyData == [name |-> <<>>, charge |-> "", bail |-> <<>>, file |-> NO_IMAGE]

\* str(n) of a natural number
RECURSIVE Decimal(_)
Decimal(n) ==
    LET d == CHOOSE c \in Digits : DigitVal(c) = n % 10 IN
    IF n < 10 THEN <<d>> ELSE Append(Decimal(n \div 10), d)

\* the file name _extract_mugshot hands to convert_base64_to_image: the name
\* without punctuation and with '_' for ' ', or the clock when there is no name
filename_prefix(name, t) ==
    IF name # <<>>
    THEN LET kept == SelectSeq(name, LAMBDA c : c \in Letters \cup Digits \cup {" ", "-", "_"})
             clean_name == [k \in DOMAIN RStrip(kept) |->
                              IF RStrip(kept)[k] = " " THEN "_" ELSE RStrip(kept)[k]]
         IN  MUGSHOT_ \o clean_name
    ELSE MUGSHOT_ \o Decimal(t)

\* what a detail view shows of a mugshot: no image element, an image whose
\* data does not decode, an image that is saved
ImageInputs == {"none", "undecodable", "jpeg"}

\* _extract_mugshot: <<Mugshot_File, files created>>; convert_base64_to_image
\* opens the file before it decodes the data
extract_mugshot(name, image, t) ==
    LET path == MugshotFile(Join(filename_prefix(name, t))) IN
    CASE image = "none" -> <<NO_IMAGE, {}>>
      [] image = "undecodable" -> <<NO_IMAGE, {path}>>
      [] image = "jpeg" -> <<path, {path}>>

\* _set_defaults
set_defaults(data) ==
    [data EXCEPT !.name = IF @ = <<>> THEN UNKNOWN ELSE @,
                 !.charge = IF @ = "" THEN NO_CHARGE_LISTED ELSE @,
                 !.bail = IF @ = <<>> THEN NO_BAIL_INFORMATION ELSE @]

\* extract_all_fields at time t: [data, written]
extract_all_fields(page_text, image, t) ==
    LET name == extract_name(page_text, 1)
        mugshot == extract_mugshot(name, image, t)
    IN  [data |-> set_defaults([name |-> name,
                                charge |-> Join(extract_charge(page_text)),
                                bail |-> extract_bail(page_text, 1),
                                file |-> mugshot[1]]),
         written |-> mugshot[2]]

-----------------------------------------------------------------------------
(* DataValidator *)

MISSING_NAME == "Missing or invalid name"
MISSING_MUGSHOT == "Missing mugshot"

validate_inmate_data(data) ==
    LET issues ==
            (IF data.name = <<>> \/ data.name = UNKNOWN THEN <<MISSING_NAME>> ELSE <<>>)
            \o (IF data.file = "" \/ data.file = NO_IMAGE THEN <<MISSING_MUGSHOT>> ELSE <<>>)
    IN  [is_valid |-> Len(issues) = 0,
         issues |-> issues,
         has_charge |-> data.charge # "" /\ data.charge # NO_CHARGE_LISTED,
         has_bail |-> data.bail # <<>> /\ data.bail # NO_BAIL_INFORMATION]

get_posting_priority(data) ==
    (IF data.charge # "" /\ data.charge # NO_CHARGE_LISTED THEN 1 ELSE 0)
    + (IF data.bail # <<>> /\ data.bail # NO_BAIL_INFORMATION THEN 1 ELSE 0)

-----------------------------------------------------------------------------
(* BookingProcessor *)

\* what can go wrong in one detail view: nothing, the click raises, the page
\* body cannot be read, the modal cannot be found when it is to be closed
FailureInputs == {"none", "click", "extract", "close"}

\* process_booking at time t: [ok, data, priority, written]; ok is FALSE for
\* the (None, 0) of the except clause
process_booking(booking_info, t) ==
    IF booking_info.fails \in {"click", "extract"}
    THEN [ok |-> FALSE, data |-> EmptyData, priority |-> 0, written |-> {}]
    ELSE LET e == extract_all_fields(booking_info.page_text, booking_info.image, t)
             extracted_data == e.data
         IN  [ok |-> TRUE,
              data |-> IF extracted_data.name = <<>> \/ extracted_data.name = UNKNOWN
                       THEN [extracted_data EXCEPT !.name = BOOKING_ \o booking_info.id]
                       ELSE extracted_data,
              priority |-> get_posting_priority(extracted_data),
              written |-> e.written]

-----------------------------------------------------------------------------
(* State machine *)

NoExtraction ==
    [done |-> FALSE,
     booking_info |-> [id |-> <<>>, page_text |-> <<>>, image |-> "none", fails |-> "none"],
     ok |-> FALSE, data |-> EmptyData,
     validation |-> validate_inmate_data(EmptyData), accepted |-> FALSE]

\* post_next_inmates as process p is at: "idle" not started, "allowed" past
\* the check of the gate, "selected" holding its jobs, "published" past the
\* loop over them, "done" returned
Processes == {1, 2}

NoRun == [p \in Processes |-> [pc |-> "idle", inmates_to_post |-> <<>>, successful_posts |-> {}]]

NoCall == [batch |-> 0, ids |-> {}, records |-> <<>>, before |-> {}, gate |-> "none"]

InitAt(hours) ==
    /\ queue = NoQueueFile
    /\ files = {}
    /\ now \in hours
    /\ lastOp = "init"
    /\ call = NoCall
    /\ retOk = TRUE
    /\ retJobs = <<>>
    /\ cycle = NoCycle
    /\ published = <<>>
    /\ bail_text = <<>>
    /\ amount = 0
    /\ scrape = "idle"
    /\ booking_ids = <<>>
    /\ processed = 0
    /\ all_extracted_data = <<>>
    /\ extracted = NoExtraction
    /\ api_log = <<>>
    /\ running = NoRun

\* save_to_posting_queue(data_list); the scrape cycle that calls it has written
\* the mugshot of every record of data_list
SaveToPostingQueue(data_list) ==
    /\ queue' = NewQueue(data_list, now)
    /\ files' = files \cup { data_list[i].file : i \in DOMAIN data_list }
    /\ published' = [i \in Ids(queue') |-> 0]
    /\ lastOp' = "save"
    /\ call' = [NoCall EXCEPT !.records = data_list, !.before = PostedIds(queue)]
    /\ retOk' = TRUE
    /\ retJobs' = <<>>
    /\ cycle' = NoCycle
    /\ UNCHANGED <<now, textVars, scrapeVars, runVars>>

GetNextInmatesToPost(batch_size, gate) ==
    LET next_inmate == IF queue.exists THEN Take(Unposted(queue), batch_size) ELSE <<>>
    IN  /\ retJobs' = get_next_inmates_to_post(queue, files, batch_size, gate)
        /\ lastOp' = "get_next"
        /\ call' = [NoCall EXCEPT !.batch = batch_size,
                                  !.gate = GateVerdict(next_inmate, files, gate)]
        /\ retOk' = TRUE
        /\ cycle' = NoCycle
        /\ UNCHANGED <<queue, files, now, published, textVars, scrapeVars, runVars>>

MarkInmatesAsPosted(inmate_ids) ==
    \E r \in {mark_inmates_as_posted(queue, files, inmate_ids, now)} :
    /\ queue' = r[1]
    /\ files' = r[2]
    /\ retOk' = r[3]
    /\ lastOp' = "mark"
    /\ call' = [NoCall EXCEPT !.ids = inmate_ids, !.before = PostedIds(queue)]
    /\ retJobs' = <<>>
    /\ cycle' = NoCycle
    /\ UNCHANGED <<now, published, textVars, scrapeVars, runVars>>

CleanupUnpostedMugshots ==
    \E r \in {cleanup_unposted_mugshots(queue, files)} :
    /\ queue' = r[1]
    /\ files' = r[2]
    /\ retOk' = r[3]
    /\ published' = [i \in Ids(r[1]) |-> published[i]]
    /\ lastOp' = "cleanup"
    /\ call' = [NoCall EXCEPT !.before = PostedIds(queue)]
    /\ retJobs' = <<>>
    /\ cycle' = NoCycle
    /\ UNCHANGED <<now, textVars, scrapeVars, runVars>>

IsPostingAllowed ==
    /\ retOk' = is_posting_allowed(queue, now)
    /\ lastOp' = "allowed"
    /\ call' = NoCall
    /\ retJobs' = <<>>
    /\ cycle' = NoCycle
    /\ UNCHANGED <<queue, files, now, published, textVars, scrapeVars, runVars>>

\* what post_next_inmates does to snapshot, mugshots and the account
PostCycle(batch_size, test_mode, gate, credentials, okAt) ==
    \E r \in {post_next_inmates(queue, files, now, batch_size, test_mode,
                                 gate, credentials, okAt)} :
    /\ queue' = r.queue
    /\ files' = r.files
    /\ retOk' = r.ret
    /\ cycle' = r.cycle
    /\ published' = [i \in DOMAIN published |->
                       IF i \in r.cycle.api_ok
                       THEN published[i] + 1 ELSE published[i]]
    /\ lastOp' = "post"
    /\ call' = [NoCall EXCEPT !.batch = batch_size]
    /\ retJobs' = <<>>
    /\ UNCHANGED <<now, textVars, scrapeVars>>

PostNextInmates(batch_size, test_mode, gate, credentials, okAt) ==
    /\ PostCycle(batch_size, test_mode, gate, credentials, okAt)
    /\ UNCHANGED runVars

\* the publish calls of the loop of post_next_inmates on inmates_to_post at
\* time t: one entry for each job handed to the API
PublishCalls(inmates_to_post, credentials, test_mode, okAt, t) ==
    IF test_mode \/ credentials # "full" THEN <<>>
    ELSE [i \in DOMAIN inmates_to_post |-> [at |-> t, ok |-> i \in okAt]]

\* post_next_inmates with its publish calls written to the log
LoggedPostNextInmates(batch_size, test_mode, gate, credentials, okAt) ==
    /\ PostCycle(batch_size, test_mode, gate, credentials, okAt)
    /\ api_log' = api_log \o
         (IF cycle'.calls = 0 THEN <<>>
          ELSE PublishCalls(get_next_inmates_to_post(queue, files, batch_size, gate),
                            credentials, test_mode, okAt, now))
    /\ UNCHANGED running

\* an hour passes
Tick(hours, ticks) ==
    /\ \E h \in hours : h <= now /\ now < h + ticks
    /\ now' = now + 1
    /\ lastOp' = "tick"
    /\ call' = NoCall
    /\ retOk' = TRUE
    /\ retJobs' = <<>>
    /\ cycle' = NoCycle
    /\ UNCHANGED <<queue, files, published, textVars, scrapeVars, runVars>>

-----------------------------------------------------------------------------
(* Spec: the life of the queue *)

\* the first hour of the posting window
StartHours == {POSTING_START_HOUR}

QueueInputs == SeqsUpTo(QueueRecords, MaxRecords)

Init == InitAt(StartHours)

Next ==
    \/ \E data_list \in QueueInputs : SaveToPostingQueue(data_list)
    \/ \E gate \in GateInputs(BATCH_SIZE) : GetNextInmatesToPost(BATCH_SIZE, gate)
    \/ \E inmate_ids \in SUBSET (1..MaxRecords) : MarkInmatesAsPosted(inmate_ids)
    \/ CleanupUnpostedMugshots
    \/ IsPostingAllowed
    \/ \E gate \in GateInputs(BATCH_SIZE) : \E p \in PublishInputs(BATCH_SIZE) :
         PostNextInmates(BATCH_SIZE, p.test_mode, gate, p.credentials, p.okAt)
    \/ Tick(StartHours, MaxTicks)

Spec == Init /\ [][Next]_vars

-----------------------------------------------------------------------------
(* Claims checked under Spec *)

JobById(q, id) == CHOOSE j \in Range(q.inmates) : j.id = id

\* C1: after every write of the snapshot the stored posted_count is the number
\* of jobs whose posted flag is true
C1_PostedCountIsCount ==
    queue.exists =>
        queue.posted_count = Cardinality({ i \in DOMAIN queue.inmates : queue.inmates[i].posted })

\* mark_inmates_as_posted has written a snapshot in which two jobs are posted
C1_Witness ==
    lastOp = "mark" /\ queue.exists /\ queue.posted_count = 2

\* C2: unless save_to_posting_queue replaces the snapshot, a posted job stays
\* in the snapshot and stays posted, and posted_count does not decrease
C2_PendingToPostedOnly ==
    [][lastOp' # "save" =>
          /\ \A id \in PostedIds(queue) : id \in PostedIds(queue')
          /\ queue'.posted_count >= queue.posted_count]_vars

\* cleanup_unposted_mugshots pruned a pending job and kept the posted ones
C2_Witness ==
    /\ lastOp = "cleanup"
    /\ call.before # {}
    /\ PostedIds(queue) = call.before
    /\ retOk

\* C4: a live post cycle that made its one publish call: on success the job is
\* posted with posted_at set and its mugshot is gone and the cycle returns
\* True; on failure the job is pending, snapshot and files are untouched, the
\* job was tried once and the cycle returns False
C4_PublishOutcome ==
    [][(lastOp' = "post" /\ ~cycle'.test /\ Len(cycle'.selected) = 1 /\ cycle'.calls >= 1) =>
          LET id == cycle'.selected[1]
              job == JobById(queue', id)
          IN  IF id \in cycle'.api_ok
              THEN /\ job.posted
                   /\ job.posted_at = now'
                   /\ job.data.file \notin files'
                   /\ retOk'
              ELSE /\ ~job.posted
                   /\ job.posted_at = None
                   /\ queue' = queue
                   /\ files' = files
                   /\ cycle'.calls = 1
                   /\ ~retOk']_vars

\* a live cycle whose publish call failed has returned False
C4_Witness ==
    /\ lastOp = "post"
    /\ ~cycle.test
    /\ cycle.calls = 1
    /\ cycle.api_ok = {}
    /\ ~retOk

\* C5: when the gate rejects the selected job the cycle makes no publish call,
\* leaves snapshot and mugshots as they were, the job pending with posted_at
\* null, and returns True
C5_GateRejection ==
    [][(lastOp' = "post" /\ cycle'.gate = "rejected") =>
          /\ cycle'.calls = 0
          /\ cycle'.api_ok = {}
          /\ queue' = queue
          /\ files' = files
          /\ \A id \in Range(cycle'.candidates) :
               ~JobById(queue', id).posted /\ JobById(queue', id).posted_at = None
          /\ retOk']_vars

\* the gate has rejected a job whose mugshot is on disk
C5_Witness ==
    /\ lastOp = "post"
    /\ cycle.gate = "rejected"
    /\ cycle.candidates # <<>>
    /\ \A id \in Range(cycle.candidates) : JobById(queue, id).data.file \in files

\* C9: a call of mark_inmates_as_posted whose ids are all posted already (the
\* second of two calls with the same ids) leaves posted_count and the set of
\* posted jobs as the first call left them
C9_MarkTwice ==
    [][(lastOp' = "mark" /\ queue.exists /\ (call'.ids \cap Ids(queue)) \subseteq PostedIds(queue)) =>
          /\ queue'.posted_count = queue.posted_count
          /\ PostedIds(queue') = PostedIds(queue)]_vars

\* mark_inmates_as_posted ran on ids of the queue that were all posted before
C9_Witness ==
    /\ lastOp = "mark"
    /\ call.ids # {}
    /\ call.ids \subseteq Ids(queue)
    /\ call.ids \subseteq call.before
    /\ retOk

PendingAt(q) == { i \in DOMAIN q.inmates : ~q.inmates[i].posted }

\* C16 as stated: with the queue file missing, get_next_inmates_to_post
\* returns an empty list, mark_inmates_as_posted and cleanup_unposted_mugshots
\* both return False, and none of them creates the file
C16_MissingQueueBothFail ==
    [][~queue.exists =>
          /\ lastOp' = "get_next" => retJobs' = <<>>
          /\ lastOp' = "mark" => ~retOk'
          /\ lastOp' = "cleanup" => ~retOk'
          /\ lastOp' \in {"get_next", "mark", "cleanup"} => ~queue'.exists]_vars

\* C16: with the queue file missing, get_next_inmates_to_post returns an
\* empty list, mark_inmates_as_posted returns False, cleanup_unposted_mugshots
\* returns True, and none of them creates the file
C16_MissingQueue ==
    [][~queue.exists =>
          /\ lastOp' = "get_next" => retJobs' = <<>>
          /\ lastOp' = "mark" => ~retOk'
          /\ lastOp' = "cleanup" => retOk'
          /\ lastOp' \in {"get_next", "mark", "cleanup"} => ~queue'.exists]_vars

\* jobs were marked while there was no queue file
C16_Witness ==
    /\ lastOp = "mark"
    /\ call.ids # {}
    /\ ~queue.exists
    /\ ~retOk

\* C17: cleanup_unposted_mugshots on an existing queue keeps exactly the
\* posted jobs, unchanged and in order, removes every pending job and its
\* mugshot file, and sets total_inmates to the number of jobs kept
C17_CleanupKeepsPosted ==
    [][(lastOp' = "cleanup" /\ queue.exists) =>
          /\ queue'.exists
          /\ queue'.inmates = SelectSeq(queue.inmates, LAMBDA job : job.posted)
          /\ \A i \in PendingAt(queue) : queue.inmates[i].data.file \notin files'
          /\ queue'.total_inmates = Len(queue'.inmates)]_vars

\* cleanup removed pending job 1 and kept posted job 2
C17_Witness ==
    /\ lastOp = "cleanup"
    /\ Len(queue.inmates) = 1
    /\ queue.inmates[1].id = 2
    /\ queue.inmates[1].posted
    /\ queue.total_inmates = 1

\* C22: in live mode, at an hour of the day before 18 or from 22 on,
\* is_posting_allowed returns false and a post cycle publishes nothing
C22_WindowFromSixPm ==
    ((now % 24) < 18 \/ (now % 24) >= 22) =>
        /\ lastOp = "allowed" => ~retOk
        /\ (lastOp = "post" /\ ~cycle.test) => (~cycle.allowed /\ cycle.api_ok = {})

\* C26: the mugshot file of every pending job of the queue exists, also when
\* two queued records have the same name: posting a job removes no file of a
\* pending job
C26_PendingMugshotExists ==
    queue.exists =>
        \A i \in PendingAt(queue) : queue.inmates[i].data.file \in files

-----------------------------------------------------------------------------
(* SpecPost: post cycles, one at a time, over two hours *)

NextPost ==
    \/ \E data_list \in QueueInputs : SaveToPostingQueue(data_list)
    \/ \E gate \in GateInputs(BATCH_SIZE) : GetNextInmatesToPost(BATCH_SIZE, gate)
    \/ CleanupUnpostedMugshots
    \/ \E gate \in GateInputs(BATCH_SIZE) : \E p \in PublishInputs(BATCH_SIZE) :
         PostNextInmates(BATCH_SIZE, p.test_mode, gate, p.credentials, p.okAt)
    \/ Tick(StartHours, PostTicks)

SpecPost == Init /\ [][NextPost]_vars

\* C3: no job of a snapshot is published twice: a job that a cycle selects, or
\* that get_next_inmates_to_post returns, has no successful publish behind it
C3_PublishedAtMostOnce ==
    /\ \A id \in DOMAIN published : published[id] <= 1
    /\ lastOp = "post" =>
         \A id \in Range(cycle.selected) \ cycle.api_ok : published[id] = 0
    /\ lastOp = "get_next" =>
         \A k \in DOMAIN retJobs : published[retJobs[k].id] = 0

\* a cycle has published a job after an earlier cycle published another one
C3_Witness ==
    /\ lastOp = "post"
    /\ cycle.api_ok # {}
    /\ \E id \in DOMAIN published : id \notin cycle.api_ok /\ published[id] = 1

\* the id of the first pending job of q behind the job id
NextPendingAfter(q, id) ==
    LET behind == { i \in PendingAt(q) : \E k \in 1..(i - 1) : q.inmates[k].id = id }
    IN  q.inmates[CHOOSE i \in behind : \A j \in behind : i <= j].id

\* C21: when the gate has rejected the first pending job and a pending job
\* stands behind it, the post cycle that runs next takes that job
C21_RejectedJobSkipped ==
    [][(/\ lastOp = "post"
        /\ cycle.gate = "rejected"
        /\ \E i \in PendingAt(queue) : queue.inmates[i].id \notin Range(cycle.candidates)
        /\ lastOp' = "post"
        /\ cycle'.allowed) =>
          cycle'.candidates = <<NextPendingAfter(queue, cycle.candidates[1])>>]_vars

\* C28: with batch size 1 the jobs of a snapshot are posted in queue order:
\* every job ahead of a posted job is posted, and was posted no later
C28_PostedInQueueOrder ==
    queue.exists =>
        \A i, j \in DOMAIN queue.inmates :
            (i < j /\ queue.inmates[j].posted) =>
                /\ queue.inmates[i].posted
                /\ queue.inmates[i].posted_at <= queue.inmates[j].posted_at

\* a live cycle has published job 2 two hours after job 1 was posted
C28_Witness ==
    /\ lastOp = "post"
    /\ cycle.api_ok = {2}
    /\ queue.inmates[1].posted
    /\ queue.inmates[2].posted_at >= queue.inmates[1].posted_at + POSTING_INTERVAL_HOURS

\* C25: a test-mode post cycle leaves snapshot and mugshots as they were; a
\* cycle marks a job posted, and deletes a mugshot, only for a job whose real
\* publish call returned a post id
C25_TestModeChangesNothing ==
    [][lastOp' = "post" =>
          /\ cycle'.test => (queue' = queue /\ files' = files)
          /\ \A id \in PostedIds(queue') \ PostedIds(queue) : id \in cycle'.api_ok
          /\ files' # files => cycle'.api_ok # {}]_vars

-----------------------------------------------------------------------------
(* SpecSelect: selection with every batch size *)

NextSelect ==
    \/ \E data_list \in QueueInputs : SaveToPostingQueue(data_list)
    \/ \E inmate_ids \in SUBSET (1..MaxRecords) : MarkInmatesAsPosted(inmate_ids)
    \/ CleanupUnpostedMugshots
    \/ \E batch_size \in 1..MaxBatch : \E gate \in GateInputs(batch_size) :
         GetNextInmatesToPost(batch_size, gate)

SpecSelect == Init /\ [][NextSelect]_vars

\* the positions of the first n pending jobs of q
FirstPendingAt(q, n) ==
    { i \in PendingAt(q) : Cardinality({ j \in PendingAt(q) : j <= i }) <= n }

\* r lists the jobs of q at the positions P in queue order
ListsJobsAt(r, q, P) ==
    /\ Len(r) = Cardinality(P)
    /\ \A i \in P : r[Cardinality({ j \in P : j <= i })] = q.inmates[i]

\* C8: get_next_inmates_to_post leaves snapshot and mugshots alone, returns no
\* posted job, and with the gate unavailable or approving returns the first
\* batch_size pending jobs in queue order
C8_NextEligible ==
    [][lastOp' = "get_next" =>
          /\ queue' = queue
          /\ files' = files
          /\ \A k \in DOMAIN retJobs' : retJobs'[k].id \notin PostedIds(queue)
          /\ (queue.exists /\ call'.gate \in {"none", "unavailable", "approved"}) =>
                ListsJobsAt(retJobs', queue, FirstPendingAt(queue, call'.batch))]_vars

\* with a posted job ahead of them, the pending jobs were returned
C8_Witness ==
    /\ lastOp = "get_next"
    /\ call.gate \in {"unavailable", "approved"}
    /\ retJobs # <<>>
    /\ \E id \in PostedIds(queue) : id < retJobs[1].id

-----------------------------------------------------------------------------
(* SpecRank: ranking of long and short batches *)

RankInputs ==
    { h \o Repeat(Filler, n) : h \in SeqsUpTo(RankRecords, MaxHead), n \in {0, TOP_N - 1} }

RescrapeInputs == { Repeat(Filler, n) : n \in {1, TOP_N + 1} }

FirstScrape == ~queue.exists /\ \E data_list \in RankInputs : SaveToPostingQueue(data_list)

Rescrape == queue.exists /\ \E data_list \in RescrapeInputs : SaveToPostingQueue(data_list)

NextRank ==
    \/ FirstScrape
    \/ \E id \in 1..MaxRecords : MarkInmatesAsPosted({id})
    \/ Rescrape

SpecRank == Init /\ [][NextRank]_vars

Occurrences(s, x) == Cardinality({ i \in DOMAIN s : s[i] = x })

QueueData(q) == [i \in DOMAIN q.inmates |-> q.inmates[i].data]

Min(a, b) == IF a < b THEN a ELSE b

PriorityPoints(r) ==
    (IF r.charge \notin {"", NO_CHARGE_LISTED} THEN 1 ELSE 0)
    + (IF r.bail \notin {<<>>, NO_BAIL_INFORMATION} THEN 1 ELSE 0)

\* C10: in the queue save_to_posting_queue creates, priority never increases
\* along the job ids
C10_PriorityDescending ==
    lastOp = "save" =>
        \A i, j \in DOMAIN queue.inmates :
            i < j => PriorityPoints(queue.inmates[i].data) >= PriorityPoints(queue.inmates[j].data)

\* a priority-2 job precedes a priority-1 job whose bail is higher
C10_Witness ==
    /\ lastOp = "save"
    /\ \E i, j \in DOMAIN queue.inmates :
         /\ i < j
         /\ PriorityPoints(queue.inmates[i].data) = 2
         /\ PriorityPoints(queue.inmates[j].data) = 1
         /\ get_bail_amount(queue.inmates[j].data.bail) > get_bail_amount(queue.inmates[i].data.bail)

\* C11: in the queue save_to_posting_queue creates, jobs of equal priority
\* are in descending order of parse_bail_amount of their bail text
C11_EqualPriorityByParsedBail ==
    lastOp = "save" =>
        \A i, j \in DOMAIN queue.inmates :
            (/\ i < j
             /\ PriorityPoints(queue.inmates[i].data) = PriorityPoints(queue.inmates[j].data))
            => parse_bail_amount(queue.inmates[i].data.bail)
                 >= parse_bail_amount(queue.inmates[j].data.bail)

\* the records of s whose sort key is k, in the order of s
WithKey(s, k) == SelectSeq(s, LAMBDA r : SortKey(r) = k)

IsPrefix(a, b) == Len(a) <= Len(b) /\ a = SubSeq(b, 1, Len(a))

\* C12: the records of equal sort key are queued in their scrape order (those
\* that are cut are the last scraped), and a scrape of the same list as the
\* scrape before it queues the same job order
C12_StableRanking ==
    [][lastOp' = "save" =>
         /\ \A r \in Range(call'.records) :
              IsPrefix(WithKey(QueueData(queue'), SortKey(r)),
                       WithKey(call'.records, SortKey(r)))
         /\ (lastOp = "save" /\ call'.records = call.records)
              => QueueData(queue') = QueueData(queue)]_vars

\* two different records of equal sort key were queued
C12_Witness ==
    /\ lastOp = "save"
    /\ \E i, j \in DOMAIN queue.inmates :
         /\ i < j
         /\ queue.inmates[i].data # queue.inmates[j].data
         /\ SortKey(queue.inmates[i].data) = SortKey(queue.inmates[j].data)

-----------------------------------------------------------------------------
(* SpecGate: the scheduling gate on a queue of GateJobs jobs *)

\* the instants at which the gate is consulted: before the window opens, three
\* hours in it, the hour it closes, and 6:00 of the next day
GateInstants == <<5, 6, 7, 8, 22, 30>>

GateTick ==
    /\ \E i \in 1..(Len(GateInstants) - 1) : now = GateInstants[i] /\ now' = GateInstants[i + 1]
    /\ lastOp' = "tick"
    /\ call' = NoCall
    /\ retOk' = TRUE
    /\ retJobs' = <<>>
    /\ cycle' = NoCycle
    /\ UNCHANGED <<queue, files, published, textVars, scrapeVars, runVars>>

GateScrape ==
    ~queue.exists /\ SaveToPostingQueue(Repeat(Record("A", "THEFT", BAIL_500), GateJobs))

InitGate == InitAt({GateInstants[1]})

NextGate ==
    \/ GateScrape
    \/ \E k \in 0..GateJobs : MarkInmatesAsPosted(1..k)
    \/ IsPostingAllowed
    \/ GateTick

SpecGate == InitGate /\ [][NextGate]_vars

PostedAt(q) == { i \in DOMAIN q.inmates : q.inmates[i].posted }

PostedToday(q, t) == { i \in PostedAt(q) : q.inmates[i].posted_at \div 24 = t \div 24 }

LimitReached(q, t) == Cardinality(PostedToday(q, t)) >= DAILY_POST_LIMIT

OutsideWindow(t) == (t % 24) \notin POSTING_START_HOUR..(POSTING_END_HOUR - 1)

TooSoon(q, t) ==
    /\ PostedAt(q) # {}
    /\ \E i \in PostedAt(q) :
         /\ \A j \in PostedAt(q) : q.inmates[j].posted_at <= q.inmates[i].posted_at
         /\ t - q.inmates[i].posted_at < POSTING_INTERVAL_HOURS

\* C6: is_posting_allowed writes nothing, and on a snapshot it can read it
\* returns false exactly when the daily limit is reached, or the hour is
\* outside the window, or the last post is less than the interval ago
C6_GateDecision ==
    [][lastOp' = "allowed" =>
          /\ queue' = queue
          /\ files' = files
          /\ queue.exists =>
               (~retOk' <=> (LimitReached(queue, now) \/ OutsideWindow(now) \/ TooSoon(queue, now)))]_vars

\* the gate said no for the daily limit alone
C6_Witness ==
    /\ lastOp = "allowed"
    /\ ~retOk
    /\ LimitReached(queue, now)
    /\ ~OutsideWindow(now)
    /\ ~TooSoon(queue, now)

\* C29 as stated: mark_inmates_as_posted leaves the posted_at of every job
\* that was posted before the call as it was, and marking only jobs that were
\* posted already moves neither the last-post time nor the daily count
C29_PostedAtNeverChanged ==
    [][lastOp' = "mark" =>
          /\ \A i \in DOMAIN queue.inmates :
               queue.inmates[i].posted =>
                   queue'.inmates[i].posted_at = queue.inmates[i].posted_at
          /\ (call'.ids \cap Ids(queue)) \subseteq PostedIds(queue) =>
               /\ LastPostTime(queue'.inmates, None) = LastPostTime(queue.inmates, None)
               /\ get_daily_post_count(queue', now') = get_daily_post_count(queue, now)]_vars

\* C29: mark_inmates_as_posted leaves the posted_at of a posted job whose id
\* is not among the ids passed as it was, and sets the posted_at of every job
\* whose id is passed to the time of the call, posted before or not
C29_PostedAtOfOthersKept ==
    [][lastOp' = "mark" =>
          \A i \in DOMAIN queue.inmates :
              /\ (queue.inmates[i].posted /\ queue.inmates[i].id \notin call'.ids) =>
                    queue'.inmates[i].posted_at = queue.inmates[i].posted_at
              /\ queue.inmates[i].id \in call'.ids =>
                    (queue'.inmates[i].posted /\ queue'.inmates[i].posted_at = now')]_vars

\* a job posted an hour ago was marked again, next to a posted job that was not
C29_Witness ==
    /\ lastOp = "mark"
    /\ \E i, j \in DOMAIN queue.inmates :
         /\ queue.inmates[i].id \in call.ids \cap call.before
         /\ queue.inmates[i].posted_at = now
         /\ queue.inmates[j].id \in call.before \ call.ids
         /\ queue.inmates[j].posted_at < now

-----------------------------------------------------------------------------
(* SpecParse: parse_bail_amount on bail texts *)

\* pieces of bail text: blanks, the characters of the money pattern, amounts,
\* the keywords in either case, text without meaning
BailFragments ==
    { <<" ">>,
      <<"$">>,
      <<",">>,
      <<".">>,
      <<"5">>,
      <<"$", "1", ",", "2", "5", "0", ".", "0", "0">>,
      <<"$", "5", "0", "0">>,
      <<"N", "O", " ", "B", "A", "I", "L">>,
      <<"H", "O", "L", "D", " ", "W", "I", "T", "H", "O", "U", "T", " ", "B", "A", "I", "L">>,
      <<"R", "e", "l", "e", "a", "s", "e", "d">>,
      <<"N", "o", " ", "b", "a", "i", "l", " ", "i", "n", "f", "o", "r", "m", "a", "t", "i", "o", "n">>,
      <<"g", "a", "r", "b", "a", "g", "e">> }

RECURSIVE Concat(_)
Concat(ss) == IF ss = <<>> THEN <<>> ELSE Head(ss) \o Concat(Tail(ss))

BailTexts == { Concat(ss) : ss \in SeqsUpTo(BailFragments, MaxFragments) }

ParseBailAmount(bail_string) ==
    /\ bail_text' = bail_string
    /\ amount' = parse_bail_amount(bail_string)
    /\ lastOp' = "parse"
    /\ call' = NoCall
    /\ retOk' = TRUE
    /\ retJobs' = <<>>
    /\ cycle' = NoCycle
    /\ UNCHANGED <<queue, files, now, published, scrapeVars, runVars>>

\* one text is parsed in a behaviour
NextParse == lastOp = "init" /\ \E bail_string \in BailTexts : ParseBailAmount(bail_string)

SpecParse == Init /\ [][NextParse]_vars

\* the keywords of the claims, looked for without regard to case
Mentions(s, keyword) == Contains(Upper(s), keyword)

\* C18: parse_bail_amount returns 0 for every text that contains "RELEASED"
\* or "NO BAIL INFORMATION" in any case
C18_ReleasedOrNoInformationIsZero ==
    (/\ lastOp = "parse"
     /\ Mentions(bail_text, RELEASED) \/ Mentions(bail_text, NO_BAIL_INFORMATION_UPPER))
    => amount = 0

\* C19: parse_bail_amount raises nothing and returns a number that is not
\* negative; 0 for empty and blank text and for text with neither a keyword
\* nor a currency amount, 999999999 for "HOLD WITHOUT BAIL", 1250 for
\* "$1,250.00", and the first currency amount of a text that has several
C19_ParseTotal ==
    lastOp = "parse" =>
        /\ amount # ValueError
        /\ amount >= 0
        /\ (bail_text = <<>> \/ \A i \in DOMAIN bail_text : bail_text[i] = " ") => amount = 0
        /\ bail_text = <<"g", "a", "r", "b", "a", "g", "e">> => amount = 0
        /\ (/\ ~Mentions(bail_text, NO_BAIL)
            /\ ~Mentions(bail_text, HOLD_WITHOUT_BAIL)
            /\ ~Mentions(bail_text, RELEASED)
            /\ \A i \in DOMAIN bail_text : bail_text[i] # "$") => amount = 0
        /\ bail_text = HOLD_WITHOUT_BAIL => amount = NO_BAIL_AMOUNT
        /\ bail_text = <<"$", "1", ",", "2", "5", "0", ".", "0", "0">> => amount = 125000
        /\ bail_text = <<"g", "a", "r", "b", "a", "g", "e", "$", "5", "0", "0">> => amount = 50000
        /\ bail_text = <<"$", "1", ",", "2", "5", "0", ".", "0", "0", "$", "5", "0", "0">> => amount = 125000

\* a text whose currency substring holds no digit was parsed
C19_Witness ==
    /\ lastOp = "parse"
    /\ bail_text = <<"$", ",">>
    /\ amount = 0

-----------------------------------------------------------------------------
(* SpecScrape: one scrape cycle over the detail views of a roster page *)

\* name, charge, and a "Bail Options:" line ahead of a "Bail:" line
PAGE_OPTIONS_FIRST ==
    << <<"F", "u", "l", "l", " ", "N", "a", "m", "e", ":">>,
       <<"J", "O", "H", "N", " ", "D", "O", "E">>,
       <<"C", "h", "a", "r", "g", "e", ":", " ", "1">>,
       <<"D", "e", "s", "c", "r", "i", "p", "t", "i", "o", "n", ":">>,
       <<"T", "H", "E", "F", "T">>,
       <<"B", "a", "i", "l", " ", "O", "p", "t", "i", "o", "n", "s", ":">>,
       <<"$", "2", ",", "5", "0", "0", ".", "0", "0">>,
       <<"B", "a", "i", "l", ":", " ", "$", "5", "0", "0">> >>

\* name, and a "Bail:" line ahead of the "Bail Options:" line
PAGE_BAIL_FIRST ==
    << <<"N", "a", "m", "e", ":">>,
       <<"J", "A", "N", "E", " ", "R", "O", "E">>,
       <<"B", "a", "i", "l", ":", " ", "$", "5", "0", "0">>,
       <<"B", "a", "i", "l", " ", "O", "p", "t", "i", "o", "n", "s", ":">>,
       <<"$", "2", ",", "5", "0", "0", ".", "0", "0">> >>

\* a name label followed by text that is no name
PAGE_NO_NAME ==
    << <<"N", "a", "m", "e", ":">>,
       <<"X">>,
       <<"B", "a", "i", "l", " ", "O", "p", "t", "i", "o", "n", "s", ":">>,
       <<"H", "O", "L", "D", " ", "W", "I", "T", "H", "O", "U", "T", " ", "B", "A", "I", "L">> >>

\* a name between blanks, no charge, a bail that is a placeholder
PAGE_NAME_ONLY ==
    << <<"I", "n", "m", "a", "t", "e", " ", "N", "a", "m", "e", ":">>,
       <<" ", " ", "R", "I", "C", "H", "A", "R", "D", " ", "R", "O", "E", " ">>,
       <<"B", "a", "i", "l", " ", "O", "p", "t", "i", "o", "n", "s", ":">>,
       <<"N", "o", " ", "b", "a", "i", "l">> >>

PageInputs == {PAGE_OPTIONS_FIRST, PAGE_BAIL_FIRST, PAGE_NO_NAME, PAGE_NAME_ONLY}

\* the detail views: every page with every kind of image and no failure, and
\* one page with a saved image and each failure
ViewInputs ==
    { [page_text |-> page_text, image |-> image, fails |-> "none"] :
        page_text \in PageInputs, image \in ImageInputs }
    \cup { [page_text |-> PAGE_OPTIONS_FIRST, image |-> "jpeg", fails |-> fails] :
             fails \in FailureInputs \ {"none"} }

\* the text of the k-th booking id link
BookingId(k) == Decimal(10000000 + k)

\* find_booking_ids found the links of views
FindBookingIds(views) ==
    /\ scrape = "idle"
    /\ booking_ids' = [k \in DOMAIN views |->
                         [id |-> BookingId(k), page_text |-> views[k].page_text,
                          image |-> views[k].image, fails |-> views[k].fails]]
    /\ scrape' = IF views = <<>> THEN "returned" ELSE "loop"
    /\ processed' = 0
    /\ all_extracted_data' = <<>>
    /\ extracted' = NoExtraction
    /\ lastOp' = "find_booking_ids"
    /\ call' = NoCall
    /\ retOk' = TRUE
    /\ retJobs' = <<>>
    /\ cycle' = NoCycle
    /\ UNCHANGED <<queue, files, now, published, textVars, runVars>>

\* one iteration of the loop of process_multiple_bookings; an exception of
\* the modal lookup leaves the method, and the caller returns []
ProcessBooking ==
    /\ scrape = "loop"
    /\ LET booking_info == booking_ids[processed + 1]
           r == process_booking(booking_info, now)
           validation == validate_inmate_data(r.data)
           accepted == r.ok /\ validation.is_valid
       IN  /\ files' = files \cup r.written
           /\ extracted' = [done |-> TRUE, booking_info |-> booking_info,
                            ok |-> r.ok, data |-> r.data,
                            validation |-> validation, accepted |-> accepted]
           /\ IF booking_info.fails = "close"
              THEN /\ scrape' = "raised"
                   /\ all_extracted_data' = <<>>
                   /\ UNCHANGED processed
              ELSE /\ processed' = processed + 1
                   /\ all_extracted_data' =
                        IF accepted THEN Append(all_extracted_data, r.data)
                        ELSE all_extracted_data
                   /\ scrape' = IF processed' = Len(booking_ids) THEN "returned" ELSE "loop"
    /\ lastOp' = "process_booking"
    /\ call' = NoCall
    /\ retOk' = TRUE
    /\ retJobs' = <<>>
    /\ cycle' = NoCycle
    /\ UNCHANGED <<queue, now, published, textVars, booking_ids, runVars>>

\* fill_form_with_current_date: the records the cycle returned, if any, go to the queue
SaveScraped ==
    /\ lastOp = "process_booking"
    /\ scrape = "returned"
    /\ all_extracted_data # <<>>
    /\ SaveToPostingQueue(all_extracted_data)

NextScrape ==
    \/ \E views \in SeqsUpTo(ViewInputs, MaxViews) : FindBookingIds(views)
    \/ ProcessBooking
    \/ SaveScraped

SpecScrape == Init /\ [][NextScrape]_vars

\* the name rules of the claims: not empty, a space, a letter, at most 50 characters
ValidFullName(name) ==
    /\ name # <<>>
    /\ \E k \in DOMAIN name : name[k] = " "
    /\ \E k \in DOMAIN name : name[k] \in Letters
    /\ Len(name) <= 50

\* C13: validate_inmate_data reports a record admissible exactly if its name
\* is a valid full name and it has a mugshot, whatever its charge and bail,
\* and its issues are about name and mugshot only
C13_AdmissibleIffValidName ==
    (lastOp = "process_booking" /\ extracted.ok) =>
        /\ extracted.validation.is_valid
             <=> (ValidFullName(extracted.data.name) /\ extracted.data.file # NO_IMAGE)
        /\ \A charge \in {"", NO_CHARGE_LISTED, "THEFT"} :
           \A bail \in {<<>>, NO_BAIL_INFORMATION, BAIL_500} :
               validate_inmate_data([extracted.data EXCEPT !.charge = charge, !.bail = bail]).is_valid
                 = extracted.validation.is_valid
        /\ Range(extracted.validation.issues) \subseteq {MISSING_NAME, MISSING_MUGSHOT}

\* the stripped lines of the pages of the cycle's detail views
LinesOf(views) ==
    UNION { { Strip(views[k].page_text[n]) : n \in DOMAIN views[k].page_text } : k \in DOMAIN views }

\* C14: every record the scrape cycle has accumulated has a saved mugshot and
\* a valid full name read from a detail view
C14_AccumulatedAdmissible ==
    \A k \in DOMAIN all_extracted_data :
        /\ all_extracted_data[k].file # NO_IMAGE
        /\ all_extracted_data[k].file \in files
        /\ ValidFullName(all_extracted_data[k].name)
        /\ all_extracted_data[k].name \in LinesOf(booking_ids)

\* the records of the detail views of a cycle in which nothing fails
RECURSIVE AdmissibleOthers(_, _)
AdmissibleOthers(views, t) ==
    IF views = <<>> THEN <<>>
    ELSE LET r == process_booking(Head(views), t) IN
         (IF Head(views).fails = "none" /\ validate_inmate_data(r.data).is_valid
          THEN <<r.data>> ELSE <<>>)
         \o AdmissibleOthers(Tail(views), t)

\* C15: when the scrape cycle is over, its result holds the admissible record
\* of every detail view in which nothing failed
C15_LocalFailureKeepsBatch ==
    scrape \in {"returned", "raised"} =>
        \A d \in Range(AdmissibleOthers(booking_ids, now)) :
            Occurrences(all_extracted_data, d) >= Occurrences(AdmissibleOthers(booking_ids, now), d)

\* the admissible values that follow a "Bail Options:" line
OptionsValues(lines) ==
    { Strip(lines[n + 1]) : n \in { m \in DOMAIN lines :
        /\ Contains(Strip(lines[m]), BAIL_OPTIONS)
        /\ m + 1 <= Len(lines)
        /\ is_valid_bail(Strip(lines[m + 1])) } }

\* the admissible values behind the colon of a "Bail:" line
GenericValues(lines) ==
    { Strip(AfterColon(Strip(lines[n]))) : n \in { m \in DOMAIN lines :
        /\ Contains(Strip(lines[m]), BAIL_LABEL)
        /\ is_valid_bail(Strip(AfterColon(Strip(lines[m])))) } }

\* C20: from a page with an admissible "Bail Options:" value and an
\* admissible "Bail:" value, the bail extracted is the "Bail Options:" value
C20_BailOptionsPreferred ==
    (/\ lastOp = "process_booking"
     /\ extracted.ok
     /\ OptionsValues(extracted.booking_info.page_text) # {}
     /\ GenericValues(extracted.booking_info.page_text) # {})
    => extracted.data.bail \in OptionsValues(extracted.booking_info.page_text)

-----------------------------------------------------------------------------
(* SpecDay: scrape cycles, cleanups and live post cycles of one day *)

\* what a scrape cycle of the day hands to the queue
DayInputs ==
    { <<Record("A", "THEFT", BAIL_500)>>,
      <<Record("A", "THEFT", BAIL_500), Record("B", NO_CHARGE_LISTED, NO_BAIL_INFORMATION)>> }

\* 'python data.py post-next' without a vision gate and with credentials;
\* the publish call succeeds or fails
DayPost ==
    /\ Len(api_log) < MaxCalls
    /\ \E okAt \in SUBSET (1..BATCH_SIZE) :
         LoggedPostNextInmates(BATCH_SIZE, FALSE, [mode |-> "unavailable", approve |-> {}],
                               "full", okAt)

NextDay ==
    \/ \E data_list \in DayInputs : SaveToPostingQueue(data_list)
    \/ CleanupUnpostedMugshots
    \/ DayPost
    \/ Tick(StartHours, PostTicks)

SpecDay == Init /\ [][NextDay]_vars

\* the times of the publish calls that returned a post id, in order
PublishTimes == LET ok == SelectSeq(api_log, LAMBDA e : e.ok) IN [k \in DOMAIN ok |-> ok[k].at]

\* C23: the successful publishes of one calendar date are never more than
\* DAILY_POST_LIMIT, also when scrape cycles replace the queue on that date
C23_DailyLimitAcrossScrapes ==
    \A k \in DOMAIN PublishTimes :
        Cardinality({ j \in DOMAIN PublishTimes : PublishTimes[j] \div 24 = PublishTimes[k] \div 24 })
            <= DAILY_POST_LIMIT

\* C24: two consecutive successful publishes are at least
\* POSTING_INTERVAL_HOURS apart, also when a scrape cycle replaces the queue
\* between them
C24_IntervalAcrossScrapes ==
    \A k \in DOMAIN PublishTimes :
        k > 1 => PublishTimes[k] - PublishTimes[k - 1] >= POSTING_INTERVAL_HOURS

-----------------------------------------------------------------------------
(* SpecConc: two live post cycles on one snapshot, their steps interleaved *)

\* a step of process p that leaves it as r
RunStep(p, r, op, ret) ==
    /\ running' = [running EXCEPT ![p] = r]
    /\ lastOp' = op
    /\ call' = [NoCall EXCEPT !.ids = {p}]
    /\ retOk' = ret
    /\ retJobs' = <<>>
    /\ cycle' = NoCycle
    /\ UNCHANGED <<now, textVars, scrapeVars, api_log>>

\* 'if not test_mode and not is_posting_allowed(): return False'
CheckGate(p) ==
    /\ running[p].pc = "idle"
    /\ LET allowed == is_posting_allowed(queue, now) IN
       RunStep(p, [running[p] EXCEPT !.pc = IF allowed THEN "allowed" ELSE "done"],
               "check", allowed)
    /\ UNCHANGED <<queue, files, published>>

\* 'inmates_to_post = get_next_inmates_to_post(batch_size)'; the process
\* holds both credentials
Select(p, gate) ==
    /\ running[p].pc = "allowed"
    /\ LET inmates_to_post == get_next_inmates_to_post(queue, files, BATCH_SIZE, gate) IN
       RunStep(p, [running[p] EXCEPT
                     !.pc = IF inmates_to_post = <<>> THEN "done" ELSE "selected",
                     !.inmates_to_post = inmates_to_post],
               "select", TRUE)
    /\ UNCHANGED <<queue, files, published>>

\* the loop over inmates_to_post: post_to_instagram for each job
Publish(p, okAt) ==
    /\ running[p].pc = "selected"
    /\ LET inmates_to_post == running[p].inmates_to_post
           successful_posts == SuccessfulPosts(inmates_to_post, "full", FALSE, okAt)
       IN  /\ RunStep(p, [running[p] EXCEPT !.pc = "published",
                                            !.successful_posts = successful_posts],
                      "publish", TRUE)
           /\ published' = [i \in DOMAIN published |->
                              IF i \in ApiOk(inmates_to_post, "full", FALSE, okAt)
                              THEN published[i] + 1 ELSE published[i]]
    /\ UNCHANGED <<queue, files>>

\* 'if successful_posts: mark_inmates_as_posted(successful_posts)' and the return
Mark(p) ==
    /\ running[p].pc = "published"
    /\ LET successful_posts == running[p].successful_posts
           marked == IF successful_posts # {}
                     THEN mark_inmates_as_posted(queue, files, successful_posts, now)
                     ELSE <<queue, files, TRUE>>
       IN  /\ queue' = marked[1]
           /\ files' = marked[2]
           /\ RunStep(p, [running[p] EXCEPT !.pc = "done"], "commit",
                      Cardinality(successful_posts) > 0)
    /\ UNCHANGED published

\* the snapshot the two cycles run on
ConcScrape == ~queue.exists /\ \E data_list \in QueueInputs : SaveToPostingQueue(data_list)

NextConc ==
    \/ ConcScrape
    \/ \E p \in Processes : CheckGate(p)
    \/ \E p \in Processes : \E gate \in GateInputs(BATCH_SIZE) : Select(p, gate)
    \/ \E p \in Processes : \E okAt \in SUBSET (1..BATCH_SIZE) : Publish(p, okAt)
    \/ \E p \in Processes : Mark(p)
    \/ Tick(StartHours, PostTicks)

SpecConc == Init /\ [][NextConc]_vars

\* the processes whose publish call for job id returned a post id
PublishedBy(id) ==
    { p \in Processes :
        running[p].pc \in {"published", "done"} /\ id \in running[p].successful_posts }

\* C30 as stated: with the steps of two post cycles interleaved, no job is
\* published twice
C30_NoDoublePublish ==
    \A id \in DOMAIN published : published[id] <= 1

\* C30: with the steps of two post cycles interleaved, a cycle publishes a
\* job at most once and selects no job that is marked posted when it
\* selects, so a job is published twice only by two cycles that both
\* selected it before either marked it
C30_OncePerCycle ==
    [][/\ \A id \in DOMAIN published' :
            published'[id] = Cardinality({ p \in Processes :
                running'[p].pc \in {"published", "done"}
                /\ id \in running'[p].successful_posts })
       /\ lastOp' = "select" =>
            \A p \in call'.ids :
                Range(IdsOf(running'[p].inmates_to_post)) \cap PostedIds(queue) = {}]_vars

\* both cycles have published job 1
C30_Witness ==
    /\ 1 \in DOMAIN published
    /\ published[1] = 2
    /\ PublishedBy(1) = Processes

-----------------------------------------------------------------------------
(* SpecLive: one snapshot, and a post cycle invoked every hour *)

\* the hours at which the behaviours start: as the window opens, and two
\* hours before it closes
LiveHours == {POSTING_START_HOUR, POSTING_END_HOUR - 2}

InitLive == InitAt(LiveHours)

LiveScrape == ~queue.exists /\ \E data_list \in QueueInputs : SaveToPostingQueue(data_list)

\* the publish calls of the log that failed
Failures == Cardinality({ k \in DOMAIN api_log : ~api_log[k].ok })

\* the gate of a live cycle is unavailable, or falls back, or approves
LiveGates(q, fs) ==
    { gate \in GateInputs(BATCH_SIZE) :
        GateVerdict(IF q.exists THEN Take(Unposted(q), BATCH_SIZE) ELSE <<>>, fs, gate)
            \in {"none", "unavailable", "raises", "approved"} }

\* 'python data.py post-next' with credentials: the publish call succeeds,
\* or fails while fewer than MaxFailures calls have failed
LivePost ==
    /\ queue.exists
    /\ \E gate \in LiveGates(queue, files) : \E okAt \in SUBSET (1..BATCH_SIZE) :
         /\ okAt = {} => Failures < MaxFailures
         /\ LoggedPostNextInmates(BATCH_SIZE, FALSE, gate, "full", okAt)

\* an hour passes once the post cycle of the hour has run
LiveTick ==
    /\ lastOp = "post"
    /\ Tick(LiveHours, LiveTicks)

NextLive ==
    \/ LiveScrape
    \/ LivePost
    \/ LiveTick

SpecLive ==
    /\ InitLive
    /\ [][NextLive]_vars
    /\ WF_vars(LiveScrape)
    /\ WF_vars(LivePost)
    /\ WF_vars(LiveTick)

AllPosted == queue.exists /\ \A i \in DOMAIN queue.inmates : queue.inmates[i].posted

\* C27: with the gate unavailable or approving, post cycles invoked every
\* hour and publish calls that stop failing, every job of the snapshot is
\* posted in the end, and from then on get_next_inmates_to_post returns
\* the empty list
C27_EventuallyAllPosted ==
    <>[](/\ AllPosted
         /\ \A gate \in GateInputs(BATCH_SIZE) :
              get_next_inmates_to_post(queue, files, BATCH_SIZE, gate) = <<>>)

\* both jobs are posted, the second on the day after the first, after a
\* publish call had failed
C27_Witness ==
    /\ AllPosted
    /\ Len(queue.inmates) = 2
    /\ queue.inmates[2].posted_at \div 24 > queue.inmates[1].posted_at \div 24
    /\ \E k \in DOMAIN api_log : ~api_log[k].ok

====
